---- MODULE Spec2Model ----
(***************************************************************************)
(* Day 6 guard-path simulator (src/day_06/src/calculations.rs), specified  *)
(* by Spec, and three of the smaller programs of the repository: the       *)
(* report checker of day 2 (Day2Spec), the product sums of day 3           *)
(* (Day3Spec) and the update reordering of day 5 (Day5Spec).               *)
(*                                                                         *)
(* Day 6: a grid (ndarray Array2<char>) is loaded once and handed to one   *)
(* of the two public queries, count_guard_path or count_loop_obstructions. *)
(* The model follows the code statement by statement: one action per loop  *)
(* iteration, so that a run that never leaves its loop is a behaviour of   *)
(* the model that never reaches "done".  Each specification runs one       *)
(* program; the variables of the others stay at their idle values.         *)
(***************************************************************************)
EXTENDS Integers, Sequences, FiniteSets, TLC

\* ---------------------------------------------------------------- bounds
MaxRows == 3
MaxCols == 3
MaxBlocked == 1

\* ------------------------------------------------------------- base types
Markers == {"^", ">", "v", "<"}

Directions == {"Up", "Right", "Down", "Left"}

\* Absent start marker (Option::None of find_start_position).
NoStart == <<-1, -1>>

\* usize arithmetic wraps modulo the word size.  TLC integers are 32 bit, so
\* the modulus is scaled down; every grid dimension is far below it, which is
\* all the comparisons of get_next_position depend on.
UsizeModulus == 2^30

\* `x as usize` for an i32 x: a negative value wraps to the top of the range.
AsUsize(x) == IF x < 0 THEN UsizeModulus + x ELSE x

\* `x as i32` for a usize x: the top of the range reads back as negative.
AsI32(x) == IF x >= UsizeModulus \div 2 THEN x - UsizeModulus ELSE x

\* ------------------------------------------------------------------ grids
Positions(r, c) == (0 .. (r - 1)) \X (0 .. (c - 1))

\* Array2<char> of shape (r, c) as the file loader delivers it.
MkGrid(r, c, blocked, start, marker) ==
    [nrows |-> r, ncols |-> c,
     cells |-> [p \in Positions(r, c) |->
                  IF p \in blocked THEN "#"
                  ELSE IF p = start THEN marker ELSE "."]]

\* grid[pos] is defined only inside the shape; outside it the index panics.
InBounds(g, p) == p[1] < g.nrows /\ p[2] < g.ncols

SetCell(g, p, ch) == [g EXCEPT !.cells[p] = ch]

\* The published 10x10 sample (data/inputtest of the tests).
SampleGrid ==
    MkGrid(10, 10,
           {<<0, 4>>, <<1, 9>>, <<3, 2>>, <<4, 7>>,
            <<6, 1>>, <<7, 8>>, <<8, 0>>, <<9, 6>>},
           <<6, 4>>, "^")

\* The 4x4 grid built by test_possible_obstructions.
ObstructionTestGrid == MkGrid(4, 4, {<<0, 0>>}, <<1, 1>>, "^")

\* A 4x4 grid whose four obstructions keep the guard on the inner square.
SquareLoopGrid ==
    MkGrid(4, 4, {<<0, 1>>, <<1, 3>>, <<3, 2>>, <<2, 0>>}, <<1, 1>>, "^")

\* A 3x3 grid with an obstruction ahead of the guard and one to its right.
CornerGrid == MkGrid(3, 3, {<<0, 1>>, <<1, 2>>}, <<1, 1>>, "^")

ScenarioGrids == {SampleGrid, ObstructionTestGrid, SquareLoopGrid, CornerGrid}

RECURSIVE SubsetsUpTo(_, _)
\* The subsets of S with at most k elements.
SubsetsUpTo(S, k) ==
    IF k = 0
    THEN {{}}
    ELSE LET smaller == SubsetsUpTo(S, k - 1)
         IN smaller \cup { x \cup {p} : x \in smaller, p \in S }

\* -------------------------------------------------------------- Direction
\* Variant: the turn goes counter-clockwise.
TurnLeft(d) ==
    CASE d = "Up" -> "Left"
      [] d = "Left" -> "Down"
      [] d = "Down" -> "Right"
      [] d = "Right" -> "Up"

TurnRight(d) ==
    CASE d = "Up" -> "Right"
      [] d = "Right" -> "Down"
      [] d = "Down" -> "Left"
      [] d = "Left" -> "Up"

GetMovement(d) ==
    CASE d = "Up" -> <<-1, 0>>
      [] d = "Right" -> <<0, 1>>
      [] d = "Down" -> <<1, 0>>
      [] d = "Left" -> <<0, -1>>

MarkerDirection(ch) ==
    CASE ch = "^" -> "Up"
      [] ch = ">" -> "Right"
      [] ch = "v" -> "Down"
      [] ch = "<" -> "Left"

\* ---------------------------------------------------------------- helpers
\* grid.iter().enumerate(): cell i of the row-major scan.
CellAtIndex(g, i) == g.cells[<<i \div g.ncols, i % g.ncols>>]

MarkerIndices(g) ==
    { i \in 0 .. (g.nrows * g.ncols - 1) : CellAtIndex(g, i) \in Markers }

FirstIndex(S) == CHOOSE i \in S : \A j \in S : i <= j

\* Variant: a grid without a marker starts the guard at the origin, facing up.
FindStartPositionDefault(g) ==
    IF MarkerIndices(g) = {}
    THEN [found |-> TRUE, pos |-> <<0, 0>>, direction |-> "Up"]
    ELSE LET i == FirstIndex(MarkerIndices(g))
         IN [found |-> TRUE,
             pos |-> <<i \div g.ncols, i % g.ncols>>,
             direction |-> MarkerDirection(CellAtIndex(g, i))]

\* Variant: the scan index is split by the number of rows.
FindStartPositionByRows(g) ==
    IF MarkerIndices(g) = {}
    THEN [found |-> FALSE, pos |-> NoStart, direction |-> "Up"]
    ELSE LET i == FirstIndex(MarkerIndices(g))
         IN [found |-> TRUE,
             pos |-> <<i \div g.nrows, i % g.nrows>>,
             direction |-> MarkerDirection(CellAtIndex(g, i))]

\* Some((pos, direction)) of the first marker in scan order, or None.
FindStartPosition(g) ==
    IF MarkerIndices(g) = {}
    THEN [found |-> FALSE, pos |-> NoStart, direction |-> "Up"]
    ELSE LET i == FirstIndex(MarkerIndices(g))
         IN [found |-> TRUE,
             pos |-> <<i \div g.ncols, i % g.ncols>>,
             direction |-> MarkerDirection(CellAtIndex(g, i))]

\* Variant: the test for the first row left out.
IsAtEdgeNoFirstRow(g, p) ==
    \/ p[1] = g.nrows - 1
    \/ p[2] = 0
    \/ p[2] = g.ncols - 1

IsAtEdge(g, p) ==
    \/ p[1] = 0
    \/ p[1] = g.nrows - 1
    \/ p[2] = 0
    \/ p[2] = g.ncols - 1

\* Variant: the obstruction test left out, the guard always steps ahead.
GetNextPositionAhead(g, p, f) ==
    [pos |-> <<AsUsize(AsI32(p[1]) + GetMovement(f)[1]),
               AsUsize(AsI32(p[2]) + GetMovement(f)[2])>>,
     facing |-> f]

\* Variant: the guard also turns when the cell beyond the one ahead is
\* blocked.
GetNextPositionTwoAhead(g, p, f) ==
    LET mv == GetMovement(f)
        next_row == AsUsize(AsI32(p[1]) + mv[1])
        next_col == AsUsize(AsI32(p[2]) + mv[2])
        beyond == <<AsUsize(AsI32(p[1]) + 2 * mv[1]),
                    AsUsize(AsI32(p[2]) + 2 * mv[2])>>
    IN IF \/ next_row >= g.nrows
          \/ next_col >= g.ncols
          \/ g.cells[<<next_row, next_col>>] = "#"
          \/ (InBounds(g, beyond) /\ g.cells[beyond] = "#")
       THEN LET new_direction == TurnRight(f)
                mv2 == GetMovement(new_direction)
            IN [pos |-> <<AsUsize(AsI32(p[1]) + mv2[1]),
                          AsUsize(AsI32(p[2]) + mv2[2])>>,
                facing |-> new_direction]
       ELSE [pos |-> <<next_row, next_col>>, facing |-> f]

GetNextPosition(g, p, f) ==
    LET mv == GetMovement(f)
        next_row == AsUsize(AsI32(p[1]) + mv[1])
        next_col == AsUsize(AsI32(p[2]) + mv[2])
    IN IF \/ next_row >= g.nrows
          \/ next_col >= g.ncols
          \/ g.cells[<<next_row, next_col>>] = "#"
       THEN LET new_direction == TurnRight(f)
                mv2 == GetMovement(new_direction)
            IN [pos |-> <<AsUsize(AsI32(p[1]) + mv2[1]),
                          AsUsize(AsI32(p[2]) + mv2[2])>>,
                facing |-> new_direction]
       ELSE [pos |-> <<next_row, next_col>>, facing |-> f]

RECURSIVE ScanCells(_, _, _, _)
\* The nested row/col loops of get_possible_obstructions over the cells with
\* row-major index lo..hi: the positions pushed, in the order pushed.
ScanCells(g, guard_pos, lo, hi) ==
    IF lo > hi
    THEN <<>>
    ELSE IF lo = hi
    THEN LET p == <<lo \div g.ncols, lo % g.ncols>>
         IN IF p # guard_pos /\ g.cells[p] = "." THEN <<p>> ELSE <<>>
    ELSE LET mid == (lo + hi) \div 2
         IN ScanCells(g, guard_pos, lo, mid)
              \o ScanCells(g, guard_pos, mid + 1, hi)

\* Variant: the row loop starts at 1.
GetPossibleObstructionsFromRowOne(g, guard_pos) ==
    ScanCells(g, guard_pos, g.ncols, g.nrows * g.ncols - 1)

GetPossibleObstructions(g, guard_pos) ==
    ScanCells(g, guard_pos, 0, g.nrows * g.ncols - 1)

\* ------------------------------------------------------------------ state
VARIABLES
    input,                  \* the grid as loaded by read_file
    entry,                  \* which public query was invoked
    pc,                     \* control position
    grid,                   \* count_guard_path: its own (moved) grid
    pos, facing, path_count,
    steps,                  \* iterations of the current guard loop (ghost)
    occupied,               \* cells the guard has stood on in this run (ghost)
    possible_obstructions,  \* count_loop_obstructions: candidate list
    next_obs,               \* position of the for-loop iterator
    obs_pos,                \* candidate of the trial in progress
    loop_count,
    result                  \* value returned to the caller

\* Day 2 (src/day_02): the report checker's main loop.
VARIABLES
    main_pc,                \* control position of main
    lines_read,             \* lines taken from stdin so far (ghost)
    levels,                 \* the parsed report of the current line
    skip,                   \* index i of the removal loop
    safe_count

\* Day 3 (src/day_03): the two product sums over the corrupted memory.
VARIABLES
    memory,                 \* the input string, one character per element
    calc_fn,                \* which of the two functions is running
    calc_pc,
    scan_from,              \* where captures_iter resumes its search
    should_add,
    total

\* Day 5 (src/day_05): reorder_sequence.
VARIABLES
    ordering_rules,         \* HashMap<i32, Vec<i32>>, absent key = <<>>
    sequence,               \* the update as passed in (ghost)
    update,                 \* the clone being reordered
    reorder_pc,
    changed,
    idx,                    \* the loop variable i
    values,                 \* the Vec borrowed for update[i]
    vidx,                   \* position of the iterator in values
    middle_total            \* process_sequences: its total

day6vars == <<input, entry, pc, grid, pos, facing, path_count, steps,
              occupied, possible_obstructions, next_obs, obs_pos, loop_count,
              result>>

day2vars == <<main_pc, lines_read, levels, skip, safe_count>>

day3vars == <<memory, calc_fn, calc_pc, scan_from, should_add, total>>

day5vars == <<ordering_rules, sequence, update, reorder_pc, changed, idx,
              values, vidx, middle_total>>

vars == <<day6vars, day2vars, day3vars, day5vars>>

\* Each program runs on its own; the others' variables rest at these values.
Day6Idle ==
    /\ input = [nrows |-> 0, ncols |-> 0, cells |-> <<>>]
    /\ entry = "none"
    /\ pc = "idle"
    /\ grid = input
    /\ pos = <<0, 0>>
    /\ facing = "Up"
    /\ path_count = 0
    /\ steps = 0
    /\ occupied = {}
    /\ possible_obstructions = <<>>
    /\ next_obs = 1
    /\ obs_pos = <<-1, -1>>
    /\ loop_count = 0
    /\ result = [kind |-> "none", value |-> 0]

Day2Idle ==
    /\ main_pc = "idle"
    /\ lines_read = 0
    /\ levels = <<>>
    /\ skip = 0
    /\ safe_count = 0

Day3Idle ==
    /\ memory = <<>>
    /\ calc_fn = "none"
    /\ calc_pc = "idle"
    /\ scan_from = 1
    /\ should_add = TRUE
    /\ total = 0

Day5Idle ==
    /\ ordering_rules = <<>>
    /\ sequence = <<>>
    /\ update = <<>>
    /\ reorder_pc = "idle"
    /\ changed = FALSE
    /\ idx = 0
    /\ values = <<>>
    /\ vidx = 0
    /\ middle_total = 0

other_days == <<day2vars, day3vars, day5vars>>

NoResult == [kind |-> "none", value |-> 0]

Ok(n) == [kind |-> "ok", value |-> n]

ErrNoStartPosition == [kind |-> "NoStartPosition", value |-> 0]

\* Ghost counter saturates one past the bound it is compared with.
StepCap(g) == g.nrows * g.ncols * 4 + 1

\* The loaded grid: any grid of at most MaxRows x MaxCols cells with at most
\* MaxBlocked obstructions and at most one start marker, or a scenario grid.
Init ==
    /\ \/ \E r \in 1 .. MaxRows, c \in 1 .. MaxCols :
            \E b \in SubsetsUpTo(Positions(r, c), MaxBlocked) :
               \E s \in (Positions(r, c) \ b) \cup {NoStart}, m \in Markers :
                  input = MkGrid(r, c, b, s, m)
       \/ input \in ScenarioGrids
    /\ entry \in {"count_guard_path", "count_loop_obstructions"}
    /\ pc = IF entry = "count_guard_path" THEN "cgp_entry" ELSE "clo_entry"
    /\ grid = input
    /\ pos = <<0, 0>>
    /\ facing = "Up"
    /\ path_count = 0
    /\ steps = 0
    /\ occupied = {}
    /\ possible_obstructions = <<>>
    /\ next_obs = 1
    /\ obs_pos = NoStart
    /\ loop_count = 0
    /\ result = NoResult
    /\ Day2Idle /\ Day3Idle /\ Day5Idle

\* ------------------------------------------------------- count_guard_path
\* Lines 34-35: no start marker, the `?` returns the error.
GuardPathNoStart ==
    /\ pc = "cgp_entry"
    /\ ~FindStartPosition(grid).found
    /\ pc' = "cgp_err"
    /\ UNCHANGED <<other_days, occupied,
                   input, entry, grid, pos, facing, path_count, steps,
                   possible_obstructions, next_obs, obs_pos, loop_count,
                   result>>

\* Lines 34-43: locate the start, mark it with X and count it.
GuardPathEntry ==
    /\ pc = "cgp_entry"
    /\ \E s \in {FindStartPosition(grid)} :
          /\ s.found
          /\ pos' = s.pos
          /\ facing' = s.direction
          /\ grid' = SetCell(grid, s.pos, "X")
    /\ path_count' = 1
    /\ steps' = 0
    /\ occupied' = {pos'}
    /\ pc' = "cgp_loop"
    /\ UNCHANGED <<other_days,
                   input, entry, possible_obstructions, next_obs, obs_pos,
                   loop_count, result>>

\* Lines 45-61: one pass through the loop body on the loop's variables.
\* Indexing the grid at a position outside its shape panics.
LoopBody(s) ==
    IF s.status # "running"
    THEN s
    ELSE IF ~InBounds(s.grid, s.pos)
    THEN [s EXCEPT !.status = "panicked"]
    ELSE LET open == s.grid.cells[s.pos] = "."
             marked == IF open THEN SetCell(s.grid, s.pos, "X") ELSE s.grid
             count == IF open THEN s.path_count + 1 ELSE s.path_count
         IN IF IsAtEdge(marked, s.pos)
            THEN [grid |-> marked, pos |-> s.pos, facing |-> s.facing,
                  path_count |-> count, status |-> "returned"]
            ELSE LET n == GetNextPosition(marked, s.pos, s.facing)
                 IN [grid |-> marked, pos |-> n.pos, facing |-> n.facing,
                     path_count |-> count, status |-> "running"]

\* Variant: every iteration reads the caller's grid, so the marks of the
\* run are lost between iterations.
LoopVarsFromInput ==
    [grid |-> input, pos |-> pos, facing |-> facing,
     path_count |-> path_count, status |-> "running"]

LoopVars ==
    [grid |-> grid, pos |-> pos, facing |-> facing,
     path_count |-> path_count, status |-> "running"]

\* An iteration that goes round again (or panics on its index).
GuardLoopStep ==
    /\ pc = "cgp_loop"
    /\ \E n \in {LoopBody(LoopVars)} :
          /\ n.status # "returned"
          /\ grid' = n.grid
          /\ pos' = n.pos
          /\ facing' = n.facing
          /\ path_count' = n.path_count
          /\ pc' = IF n.status = "panicked" THEN "panic" ELSE "cgp_loop"
          /\ occupied' = IF n.status = "panicked" THEN occupied
                          ELSE occupied \cup {n.pos}
    /\ steps' = IF steps < StepCap(grid) THEN steps + 1 ELSE steps
    /\ UNCHANGED <<other_days,
                   input, entry, possible_obstructions, next_obs, obs_pos,
                   loop_count, result>>

\* The iteration that finds the guard on an edge and breaks (lines 53-55).
GuardLoopBreak ==
    /\ pc = "cgp_loop"
    /\ \E n \in {LoopBody(LoopVars)} :
          /\ n.status = "returned"
          /\ grid' = n.grid
          /\ path_count' = n.path_count
    /\ pc' = "cgp_ret"
    /\ UNCHANGED <<other_days, occupied,
                   input, entry, pos, facing, steps, possible_obstructions,
                   next_obs, obs_pos, loop_count, result>>

\* main.rs line 21: the count, or the error, goes back to the caller.
GuardPathReturn ==
    /\ entry = "count_guard_path"
    /\ pc \in {"cgp_ret", "cgp_err"}
    /\ result' = IF pc = "cgp_ret" THEN Ok(path_count) ELSE ErrNoStartPosition
    /\ pc' = "done"
    /\ UNCHANGED <<other_days, occupied,
                   input, entry, grid, pos, facing, path_count, steps,
                   possible_obstructions, next_obs, obs_pos, loop_count>>

\* ------------------------------------------------ count_loop_obstructions
\* Lines 139-140: no start marker.
LoopObstructionsNoStart ==
    /\ pc = "clo_entry"
    /\ ~FindStartPosition(input).found
    /\ result' = ErrNoStartPosition
    /\ pc' = "done"
    /\ UNCHANGED <<other_days, occupied,
                   input, entry, grid, pos, facing, path_count, steps,
                   possible_obstructions, next_obs, obs_pos, loop_count>>

\* Lines 139-143.
LoopObstructionsEntry ==
    /\ pc = "clo_entry"
    /\ \E s \in {FindStartPosition(input)} :
          /\ s.found
          /\ possible_obstructions' = GetPossibleObstructions(input, s.pos)
    /\ next_obs' = 1
    /\ loop_count' = 0
    /\ pc' = "clo_for"
    /\ UNCHANGED <<other_days, occupied,
                   input, entry, grid, pos, facing, path_count, steps,
                   obs_pos, result>>

\* Variant: no clone, the obstruction goes into the grid the previous run
\* worked on.
TestGridShared(g, p) == SetCell(grid, p, "#")

\* Lines 147-148: the grid handed to the trial run.
TestGrid(g, p) == SetCell(g, p, "#")

\* Lines 146-151: next candidate, clone, place the obstruction, call.
TrialStart ==
    /\ pc = "clo_for"
    /\ next_obs <= Len(possible_obstructions)
    /\ obs_pos' = possible_obstructions[next_obs]
    /\ next_obs' = next_obs + 1
    /\ grid' = TestGrid(input, possible_obstructions[next_obs])
    /\ pc' = "cgp_entry"
    /\ UNCHANGED <<other_days, occupied,
                   input, entry, pos, facing, path_count, steps,
                   possible_obstructions, loop_count, result>>

\* Lines 151-157, outcome of `if let Ok(path_count)` and `path_count > 0`.
TrialCounts(ret_pc, count) == ret_pc = "cgp_ret" /\ count > 0

TrialEnd ==
    /\ entry = "count_loop_obstructions"
    /\ pc \in {"cgp_ret", "cgp_err"}
    /\ loop_count' = IF TrialCounts(pc, path_count)
                     THEN loop_count + 1 ELSE loop_count
    /\ pc' = "clo_for"
    /\ UNCHANGED <<other_days, occupied,
                   input, entry, grid, pos, facing, path_count, steps,
                   possible_obstructions, next_obs, obs_pos, result>>

\* Line 160.
LoopObstructionsReturn ==
    /\ pc = "clo_for"
    /\ next_obs > Len(possible_obstructions)
    /\ result' = Ok(loop_count)
    /\ pc' = "done"
    /\ UNCHANGED <<other_days, occupied,
                   input, entry, grid, pos, facing, path_count, steps,
                   possible_obstructions, next_obs, obs_pos, loop_count>>

Next ==
    \/ GuardPathNoStart
    \/ GuardPathEntry
    \/ GuardLoopStep
    \/ GuardLoopBreak
    \/ GuardPathReturn
    \/ LoopObstructionsNoStart
    \/ LoopObstructionsEntry
    \/ TrialStart
    \/ TrialEnd
    \/ LoopObstructionsReturn

Spec == Init /\ [][Next]_vars

\* ------------------------------------------------- reference definitions
\* The start state of every run on the loaded grid (a trial only changes an
\* Open cell, so its start state is the same).
Start == FindStartPosition(input)

\* Position plus the displacement of a direction, in plain integers.
Ahead(p, d) == <<p[1] + GetMovement(d)[1], p[2] + GetMovement(d)[2]>>

OpenCells(g) == { p \in Positions(g.nrows, g.ncols) : g.cells[p] = "." }

\* One move of the movement rule as the specification words it: step
\* forward; with a Blocked cell ahead turn right without moving and look
\* again; Exited when the cell ahead is outside the grid; Looped when an
\* agent state repeats.
SpecStep(s) ==
    IF s.outcome # "Walking"
    THEN s
    ELSE LET candidate == Ahead(s.pos, s.dir)
         IN IF candidate \notin Positions(s.grid.nrows, s.grid.ncols)
            THEN [s EXCEPT !.outcome = "Exited"]
            ELSE IF s.grid.cells[candidate] = "#"
            THEN [s EXCEPT !.dir = TurnRight(s.dir)]
            ELSE IF <<candidate, s.dir>> \in s.seen
            THEN [s EXCEPT !.visited = s.visited \cup {candidate},
                           !.outcome = "Looped"]
            ELSE [s EXCEPT !.pos = candidate,
                           !.visited = s.visited \cup {candidate},
                           !.seen = s.seen \cup {<<candidate, s.dir>>}]

RECURSIVE SpecIterate(_, _)
SpecIterate(s, n) ==
    IF n = 0 \/ s.outcome # "Walking" THEN s
    ELSE IF n = 1 THEN SpecStep(s)
    ELSE CHOOSE r \in { SpecIterate(m, n - n \div 2) :
                          m \in { SpecIterate(s, n \div 2) } } : TRUE

\* Enough for every agent state once, with up to three turns before each.
SpecFuel(g) == 16 * g.nrows * g.ncols + 4

\* The walk from the grid's start state; still "Walking" after SpecFuel
\* moves only when the agent is walled in and turns on the spot.
SpecRun(g) ==
    LET s == FindStartPosition(g)
    IN CHOOSE r \in
         { SpecIterate(m, SpecFuel(g)) :
             m \in { [grid |-> g, pos |-> s.pos, dir |-> s.direction,
                      visited |-> {s.pos},
                      seen |-> {<<s.pos, s.direction>>},
                      outcome |-> "Walking"] } } : TRUE

RECURSIVE Iterate(_, _)
\* The loop body applied n times, by halves; each half is computed before
\* the next one starts from it.
Iterate(s, n) ==
    IF n = 0 \/ s.status # "running" THEN s
    ELSE IF n = 1 THEN LoopBody(s)
    ELSE CHOOSE r \in { Iterate(m, n - n \div 2) :
                          m \in { Iterate(s, n \div 2) } } : TRUE

\* count_guard_path on a grid of its own (lines 32-64): the state in which
\* it returns, or "running" when it has not returned after StepCap passes.
CountGuardPath(g) ==
    LET s == FindStartPosition(g)
    IN IF ~s.found
       THEN [grid |-> g, pos |-> NoStart, facing |-> "Up", path_count |-> 0,
             status |-> "NoStartPosition"]
       ELSE CHOOSE r \in
              { Iterate(m, StepCap(g)) :
                  m \in { [grid |-> SetCell(g, s.pos, "X"), pos |-> s.pos,
                           facing |-> s.direction, path_count |-> 1,
                           status |-> "running"] } } : TRUE

InGuardRun == pc \in {"cgp_loop", "cgp_ret"}

TypeOK ==
    /\ pc \in {"idle", "cgp_entry", "cgp_loop", "cgp_ret", "cgp_err",
               "clo_entry", "clo_for", "panic", "done"}
    /\ facing \in Directions
    /\ path_count \in Nat
    /\ loop_count \in Nat

\* ----------------------------------------------------------------- claims
\* C1: every guard run reaches a terminal outcome within rows*cols*4 agent
\* states, so the loop never starts an iteration beyond that number.
C1_RunWithinStateBound == steps <= grid.nrows * grid.ncols * 4

\* C2: count_loop_obstructions returns the number of candidate cells whose
\* blocking makes the run end as Looped; an Exited candidate adds nothing.
C2_CountsLoopedCandidates ==
    (entry = "count_loop_obstructions" /\ pc = "done" /\ result.kind = "ok")
        => result.value =
             Cardinality({ p \in OpenCells(input) :
                 SpecRun(TestGrid(input, p)).outcome = "Looped" })

\* C3: when the walk under the specification's movement rule exits,
\* count_guard_path returns the number of distinct cells of that walk.
C3_CountIsSpecWalkCells ==
    (/\ entry = "count_guard_path"
     /\ pc = "done"
     /\ result.kind = "ok"
     /\ SpecRun(input).outcome = "Exited")
        => result.value = Cardinality(SpecRun(input).visited)

\* C4: on the published 10x10 sample the unmodified run returns 41.
C4_SampleVisits41 ==
    (input = SampleGrid /\ entry = "count_guard_path" /\ pc = "done")
        => result = Ok(41)

C4_Witness ==
    input = SampleGrid /\ entry = "count_guard_path" /\ pc = "done"

\* C5: on the published 10x10 sample count_loop_obstructions terminates and
\* returns 6.  The count only grows and is what is returned, so it never
\* passes 6; every trial run ends within its rows*cols*4 agent states; and
\* the value returned is 6.
C5_SampleYieldsSix ==
    (input = SampleGrid /\ entry = "count_loop_obstructions")
        => /\ loop_count <= 6
           /\ steps <= grid.nrows * grid.ncols * 4
           /\ pc = "done" => result = Ok(6)

\* C6: during a guard run the agent never stands on a Blocked cell.
C6_NeverOnBlocked ==
    (InGuardRun /\ InBounds(grid, pos)) => grid.cells[pos] # "#"

\* C7: a run ends as Exited only when the cell directly ahead of the agent
\* is outside the grid.
C7_ExitOnlyWhenAheadOutside ==
    pc = "cgp_ret"
        => Ahead(pos, facing) \notin Positions(grid.nrows, grid.ncols)

\* C8: a start on the edge facing out of the grid ends the run at once with
\* exactly one visited cell, the start; a 1x1 grid always yields 1.
FacingOut(g, s) ==
    s.found /\ Ahead(s.pos, s.direction) \notin Positions(g.nrows, g.ncols)

C8_OutwardStartCountsOne ==
    FacingOut(input, Start)
        => /\ InGuardRun => (steps = 0 /\ path_count = 1 /\ pos = Start.pos)
           /\ (entry = "count_guard_path" /\ pc = "done") => result = Ok(1)

C8_Witness ==
    /\ FacingOut(input, Start)
    /\ input.nrows > 1
    /\ input.ncols > 1
    /\ entry = "count_guard_path"
    /\ pc = "done"
    /\ result = Ok(1)

\* C9: the candidate list holds exactly the Open cells of the loaded grid,
\* each once: never the start cell, never a Blocked cell.
Candidates == { possible_obstructions[i] : i \in DOMAIN possible_obstructions }

C9_CandidatesAreOpenCells ==
    (entry = "count_loop_obstructions" /\ pc # "clo_entry" /\ Start.found)
        => /\ Candidates = OpenCells(input)
           /\ Len(possible_obstructions) = Cardinality(OpenCells(input))
           /\ Start.pos \notin Candidates
           /\ \A p \in Candidates : input.cells[p] # "#"

C9_Witness ==
    /\ entry = "count_loop_obstructions"
    /\ pc = "clo_for"
    /\ Len(possible_obstructions) >= 2
    /\ \E p \in Positions(input.nrows, input.ncols) : input.cells[p] = "#"

\* C10: the loaded grid is never written (it keeps its loaded alphabet, and
\* the candidate of a trial stays Open in it); every trial starts on a copy
\* that differs from it in the candidate cell alone (Open made Blocked, no
\* mark of an earlier trial); what a trial returns is what a run on such a
\* copy returns, and the final count is a function of the candidate set.
C10_TrialsIsolated ==
    entry = "count_loop_obstructions"
        => /\ \A p \in Positions(input.nrows, input.ncols) :
                 input.cells[p] \in {".", "#"} \cup Markers
           /\ obs_pos # NoStart => input.cells[obs_pos] = "."
           /\ pc = "cgp_entry"
                => /\ { p \in Positions(input.nrows, input.ncols) :
                          grid.cells[p] # input.cells[p] } = {obs_pos}
                   /\ grid.cells[obs_pos] = "#"
           /\ pc = "cgp_ret"
                => \E r \in { CountGuardPath(
                                 [input EXCEPT !.cells[obs_pos] = "#"]) } :
                      r.status = "returned" /\ r.path_count = path_count
           /\ (pc = "done" /\ Start.found)
                => result.value =
                     Cardinality({ p \in OpenCells(input) :
                         \E r \in { CountGuardPath(
                                      [input EXCEPT !.cells[p] = "#"]) } :
                            r.status = "returned" /\ r.path_count > 0 })

C10_Witness ==
    /\ entry = "count_loop_obstructions"
    /\ pc = "cgp_ret"
    /\ next_obs > 2
    /\ path_count > 1

\* No cell of the grid holds a start marker.
NoMarker(g) == \A p \in Positions(g.nrows, g.ncols) : g.cells[p] \notin Markers

\* C11: on a grid without a start marker both queries return NoStartPosition
\* and nothing else happens: no loop iteration runs, no cell is marked or
\* counted, no candidate is tried, and no count is returned.
C11_NoStartNoRun ==
    NoMarker(input) =>
        /\ pc \in {"cgp_entry", "cgp_err", "clo_entry", "done"}
        /\ steps = 0 /\ path_count = 0 /\ loop_count = 0
        /\ occupied = {} /\ grid = input
        /\ possible_obstructions = <<>> /\ obs_pos = NoStart
        /\ result \in {NoResult, ErrNoStartPosition}
        /\ (pc = "done" => result = ErrNoStartPosition)

\* A two-row grid without a marker has been answered with the error.
C11_Witness ==
    /\ NoMarker(input) /\ input.nrows = 2 /\ \E p \in DOMAIN input.cells : input.cells[p] = "#"
    /\ entry = "count_loop_obstructions"
    /\ pc = "done" /\ result = ErrNoStartPosition

C13_CountIsOccupiedCells ==
    /\ pc = "cgp_loop" =>
           path_count \in {Cardinality(occupied),
                           Cardinality(occupied \ {pos})}
    /\ pc = "cgp_ret" => path_count = Cardinality(occupied)

\* A displacement turned a quarter clockwise (rows grow downwards).
Clockwise(v) == <<v[2], -v[1]>>

\* C14: whatever the guard faces during a run, turn_right is defined there
\* and cycles Up -> Right -> Down -> Left -> Up with period exactly 4,
\* get_movement gives Up (-1,0), Right (0,1), Down (1,0), Left (0,-1), and
\* the displacement after a right turn is the old one turned clockwise.
C14_TurnRightCycle ==
    InGuardRun =>
        \E d \in {facing} :
            /\ d \in Directions /\ TurnRight(d) \in Directions
            /\ TurnRight(d) # d
            /\ TurnRight(TurnRight(d)) # d
            /\ TurnRight(TurnRight(TurnRight(d))) # d
            /\ TurnRight(TurnRight(TurnRight(TurnRight(d)))) = d
            /\ <<d, TurnRight(d)>> \in
                   {<<"Up", "Right">>, <<"Right", "Down">>,
                    <<"Down", "Left">>, <<"Left", "Up">>}
            /\ <<d, GetMovement(d)>> \in
                   {<<"Up", <<-1, 0>> >>, <<"Right", <<0, 1>> >>,
                    <<"Down", <<1, 0>> >>, <<"Left", <<0, -1>> >>}
            /\ GetMovement(TurnRight(d)) = Clockwise(GetMovement(d))

\* A guard that started facing down has turned right and now faces left.
C14_Witness ==
    /\ InGuardRun /\ steps > 0
    /\ Start.direction = "Down" /\ facing = "Left"

\* C15: the position and direction a guard run starts from are those of the
\* marker of the loaded grid: the cell at the returned (row, col) holds the
\* marker, no other cell does, and '^', '>', 'v', '<' give Up, Right, Down,
\* Left.
C15_StartIsMarkerCell ==
    (pc = "cgp_loop" /\ steps = 0) =>
        /\ pos \in Positions(input.nrows, input.ncols)
        /\ input.cells[pos] \in Markers
        /\ \A q \in Positions(input.nrows, input.ncols) :
               input.cells[q] \in Markers => q = pos
        /\ <<input.cells[pos], facing>> \in
               {<<"^", "Up">>, <<">", "Right">>, <<"v", "Down">>,
                <<"<", "Left">>}

\* A run starts from a '<' in the last cell of a grid that is not square.
C15_Witness ==
    /\ pc = "cgp_loop" /\ steps = 0
    /\ input.nrows = 2 /\ input.ncols = 3
    /\ pos = <<1, 2>> /\ facing = "Left"

\* =================================================================== Day 2
\* The report checker (src/day_02/src/main.rs).
MaxLevel == 5

MaxLevels == 4

MaxLines == 2

\* A line of stdin, parsed: any number of levels, each a small integer.
Reports == UNION { [1 .. n -> 1 .. MaxLevel] : n \in 0 .. MaxLevels }

Abs(x) == IF x < 0 THEN -x ELSE x

\* is_safe_report: the direction is taken from the first pair, then every
\* pair must differ by 1..3 and go the same way.
IsSafeReport(lv) ==
    IF Len(lv) < 2
    THEN TRUE
    ELSE LET is_increasing == lv[2] - lv[1] > 0
         IN \A k \in 2 .. Len(lv) :
                LET diff == lv[k] - lv[k - 1]
                IN /\ ~(Abs(diff) < 1 \/ Abs(diff) > 3)
                   /\ ((diff > 0) = is_increasing)

\* levels[..i] chained with levels[i + 1..], for the 0-based index i.
WithoutLevel(lv, i) ==
    [k \in 1 .. (Len(lv) - 1) |-> IF k <= i THEN lv[k] ELSE lv[k + 1]]

Day2Init ==
    /\ main_pc = "read"
    /\ lines_read = 0
    /\ levels = <<>>
    /\ skip = 0
    /\ safe_count = 0
    /\ Day6Idle /\ Day3Idle /\ Day5Idle

\* Lines 128-142: a line is read and parsed; a safe report is counted, an
\* unsafe one of more than two levels goes to the removal loop.
ReadLine ==
    /\ main_pc = "read"
    /\ lines_read < MaxLines
    /\ lines_read' = lines_read + 1
    /\ \E lv \in Reports :
          /\ levels' = lv
          /\ safe_count' = IF IsSafeReport(lv) THEN safe_count + 1
                           ELSE safe_count
          /\ main_pc' = IF ~IsSafeReport(lv) /\ Len(lv) > 2 THEN "dampen"
                        ELSE "read"
    /\ skip' = 0
    /\ UNCHANGED <<day6vars, day3vars, day5vars>>

\* Lines 145-155: one pass of `for i in 0..levels.len()`.
DampenerTry ==
    /\ main_pc = "dampen"
    /\ skip < Len(levels)
    /\ IF IsSafeReport(WithoutLevel(levels, skip))
       THEN /\ safe_count' = safe_count + 1
            /\ main_pc' = "read"
            /\ skip' = skip
       ELSE /\ skip' = skip + 1
            /\ UNCHANGED <<safe_count, main_pc>>
    /\ UNCHANGED <<lines_read, levels, day6vars, day3vars, day5vars>>

\* The removal loop ran out of indices: the report stays uncounted.
DampenerExhausted ==
    /\ main_pc = "dampen"
    /\ skip = Len(levels)
    /\ main_pc' = "read"
    /\ UNCHANGED <<lines_read, levels, skip, safe_count, day6vars, day3vars,
                   day5vars>>

\* Lines 128 and 161: read_line returns 0, the count is printed.
EndOfInput ==
    /\ main_pc = "read"
    /\ main_pc' = "done"
    /\ UNCHANGED <<lines_read, levels, skip, safe_count, day6vars, day3vars,
                   day5vars>>

Day2Next ==
    \/ ReadLine
    \/ DampenerTry
    \/ DampenerExhausted
    \/ EndOfInput

Day2Spec == Day2Init /\ [][Day2Next]_vars

\* The module doc's conditions 1 and 2.
StrictlyMonotonic(lv) ==
    \/ \A k \in 2 .. Len(lv) : lv[k] - lv[k - 1] \in 1 .. 3
    \/ \A k \in 2 .. Len(lv) : lv[k - 1] - lv[k] \in 1 .. 3

\* ... or condition 3: removing exactly one level gives such a report.
SafeByRule(lv) ==
    \/ StrictlyMonotonic(lv)
    \/ \E i \in 0 .. (Len(lv) - 1) : StrictlyMonotonic(WithoutLevel(lv, i))

\* C16: once the first report has been dealt with it has been counted if
\* and only if it is strictly monotonic with steps of 1..3, or is so after
\* the removal of one level, whatever its length.
C16_CountedIffSafeByRule ==
    (lines_read = 1 /\ main_pc \in {"read", "done"}) =>
        (safe_count = 1 <=> SafeByRule(levels))

\* C19: no grid access of a guard run is out of bounds: the index at the
\* head of the loop never panics, every position the guard takes lies in
\* [0,rows) x [0,cols), and whenever get_next_position is called the cell
\* ahead, which it reads, and the cell to the right, which it may step into
\* unread, lie inside the grid with no coordinate gone below zero.
C19_AccessesInBounds ==
    /\ pc # "panic"
    /\ occupied \subseteq Positions(grid.nrows, grid.ncols)
    /\ InGuardRun => pos \in Positions(grid.nrows, grid.ncols)
    /\ (pc = "cgp_loop" /\ ~IsAtEdge(grid, pos)) =>
           \A d \in {facing, TurnRight(facing)} :
               /\ AsI32(pos[1]) + GetMovement(d)[1] >= 0
               /\ AsI32(pos[2]) + GetMovement(d)[2] >= 0
               /\ Ahead(pos, d) \in Positions(grid.nrows, grid.ncols)

\* The guard has just turned right and stepped into the cell nobody tested.
C19_Witness ==
    /\ pc = "cgp_loop" /\ steps = 1
    /\ facing = TurnRight(Start.direction)
    /\ pos = Ahead(Start.pos, facing)

\* The state a guard run on g starts its loop in (g has a marker).
RunStart(g) ==
    [grid |-> SetCell(g, FindStartPosition(g).pos, "X"),
     pos |-> FindStartPosition(g).pos,
     facing |-> FindStartPosition(g).direction,
     path_count |-> 1, status |-> "running"]

\* C20: when the run on the loaded grid exits and a trial blocks an open
\* cell that run never occupies, the trial goes as the unmodified run does:
\* after every iteration it stands on the same cell, facing the same way,
\* with the same count and the same marks, and it returns the same count.
C20_UnvisitedBlockChangesNothing ==
    (entry = "count_loop_obstructions" /\ InGuardRun) =>
        \E base \in {CountGuardPath(input)} :
            (base.status = "returned" /\ base.grid.cells[obs_pos] = ".") =>
                /\ pc = "cgp_ret" =>
                       /\ path_count = base.path_count
                       /\ pos = base.pos /\ facing = base.facing
                       /\ grid = SetCell(base.grid, obs_pos, "#")
                /\ pc = "cgp_loop" =>
                       \E same \in {Iterate(RunStart(input), steps)} :
                           /\ same.status = "running"
                           /\ pos = same.pos /\ facing = same.facing
                           /\ path_count = same.path_count
                           /\ grid = SetCell(same.grid, obs_pos, "#")

\* A trial with its obstruction off the path of the unmodified run has
\* returned after the guard turned at least once.
C20_Witness ==
    /\ entry = "count_loop_obstructions" /\ pc = "cgp_ret"
    /\ CountGuardPath(input).status = "returned"
    /\ CountGuardPath(input).grid.cells[obs_pos] = "."
    /\ facing # Start.direction /\ path_count >= 3

\* =================================================================== Day 3
\* The product sums (src/day_03/src/calculations.rs and main.rs).
MaxFragments == 4

Digits == {"0", "1", "2", "3", "4", "5", "6", "7", "8", "9"}

\* \d of the regex crate is any Unicode decimal digit; U+0663 (ARABIC-INDIC
\* DIGIT THREE) stands for those that are not ASCII.
UnicodeDigits == Digits \cup {"U+0663"}

DigitValue(c) ==
    CHOOSE n \in 0 .. 9 :
        <<"0", "1", "2", "3", "4", "5", "6", "7", "8", "9">>[n + 1] = c

\* Pieces of corrupted memory: well-formed instructions and near misses.
Fragments ==
    { <<"m", "u", "l", "(", "2", ",", "3", ")">>,
      <<"m", "u", "l", "(", "1", "2", ",", "5", ")">>,
      <<"d", "o", "(", ")">>,
      <<"d", "o", "n", "'", "t", "(", ")">>,
      <<"m", "u", "l", "(", "1", "2", "3", "4", ",", "5", ")">>,
      <<"m", "u", "l", "(", "3", ",", "4", "]">>,
      <<"m", "u", "l", "(", "U+0663", ",", "4", ")">> }

RECURSIVE Inputs(_)
\* Every concatenation of at most n fragments.
Inputs(n) ==
    IF n = 0
    THEN {<<>>}
    ELSE Inputs(n - 1)
           \cup { f \o t : f \in Fragments, t \in Inputs(n - 1) }

\* The literal lit stands in s at position i.
HasAt(s, i, lit) ==
    /\ i + Len(lit) - 1 <= Len(s)
    /\ \A k \in 1 .. Len(lit) : s[i + k - 1] = lit[k]

\* \d{n} stands in s at position i.
DigitsAt(s, i, n) ==
    /\ i + n - 1 <= Len(s)
    /\ \A k \in 0 .. (n - 1) : s[i + k] \in UnicodeDigits

\* str::parse::<i32> accepts ASCII digits only.
Parses(s, i, n) == \A k \in 0 .. (n - 1) : s[i + k] \in Digits

\* str::parse of the n digits of s from position i.
ParseNumber(s, i, n) ==
    CASE n = 1 -> DigitValue(s[i])
      [] n = 2 -> 10 * DigitValue(s[i]) + DigitValue(s[i + 1])
      [] n = 3 -> 100 * DigitValue(s[i]) + 10 * DigitValue(s[i + 1])
                    + DigitValue(s[i + 2])

\* A capture: what matched, where, and the two groups as parse() gives them
\* (parsed is FALSE when a parse() returns Err).
NoMatch ==
    [kind |-> "none", start |-> 0, end |-> 0, parsed |-> TRUE, num1 |-> 0,
     num2 |-> 0]

\* mul\((\d{1,3}),(\d{1,3})\) anchored at position i: the digit runs must
\* be followed by ',' and ')', which fixes their lengths.
MulAt(s, i) ==
    LET fits == { ab \in (1 .. 3) \X (1 .. 3) :
                    /\ HasAt(s, i, <<"m", "u", "l", "(">>)
                    /\ DigitsAt(s, i + 4, ab[1])
                    /\ HasAt(s, i + 4 + ab[1], <<",">>)
                    /\ DigitsAt(s, i + 5 + ab[1], ab[2])
                    /\ HasAt(s, i + 5 + ab[1] + ab[2], <<")">>) }
    IN IF fits = {}
       THEN NoMatch
       ELSE LET ab == CHOOSE x \in fits : TRUE
                ok == /\ Parses(s, i + 4, ab[1])
                      /\ Parses(s, i + 5 + ab[1], ab[2])
            IN [kind |-> "mul", start |-> i,
                end |-> i + 6 + ab[1] + ab[2],
                parsed |-> ok,
                num1 |-> IF ok THEN ParseNumber(s, i + 4, ab[1]) ELSE 0,
                num2 |-> IF ok THEN ParseNumber(s, i + 5 + ab[1], ab[2])
                         ELSE 0]

\* PRODUCT_RE anchored at position i.
ProductAt(s, i) == MulAt(s, i)

\* DO_DONT_RE anchored at position i: the alternatives in their order.
DoDontAt(s, i) ==
    IF HasAt(s, i, <<"d", "o", "(", ")">>)
    THEN [NoMatch EXCEPT !.kind = "do()", !.start = i, !.end = i + 4]
    ELSE IF HasAt(s, i, <<"d", "o", "n", "'", "t", "(", ")">>)
    THEN [NoMatch EXCEPT !.kind = "don't()", !.start = i, !.end = i + 7]
    ELSE MulAt(s, i)

\* The next capture of captures_iter: the leftmost match that starts at or
\* after position from, for the regex of calc_fn.
NextCapture(s, from, fn) ==
    LET at(i) == IF fn = "calculate_products" THEN ProductAt(s, i)
                 ELSE DoDontAt(s, i)
        hits == { i \in from .. Len(s) : at(i).kind # "none" }
    IN IF hits = {}
       THEN NoMatch
       ELSE at(CHOOSE i \in hits : \A j \in hits : i <= j)

Day3Init ==
    /\ memory \in Inputs(MaxFragments)
    /\ calc_fn = "calculate_products"
    /\ calc_pc = "scan"
    /\ scan_from = 1
    /\ should_add = TRUE
    /\ total = 0
    /\ Day6Idle /\ Day2Idle /\ Day5Idle

\* calculations.rs lines 24-28: one pass of the loop of calculate_products.
ProductsCapture ==
    /\ calc_fn = "calculate_products" /\ calc_pc = "scan"
    /\ \E cap \in {NextCapture(memory, scan_from, calc_fn)} :
          /\ cap.kind # "none"
          /\ IF cap.parsed
             THEN /\ total' = total + cap.num1 * cap.num2
                  /\ scan_from' = cap.end
                  /\ calc_pc' = calc_pc
             ELSE /\ calc_pc' = "err"
                  /\ UNCHANGED <<total, scan_from>>
    /\ UNCHANGED <<memory, calc_fn, should_add, day6vars, day2vars, day5vars>>

\* Variant: a do() does not switch the sum back on.
NextShouldAddSticky(flag, kind) ==
    CASE kind = "do()" -> flag
      [] kind = "don't()" -> FALSE
      [] OTHER -> flag

\* Lines 48-50: the arms of the match that set should_add.
NextShouldAdd(flag, kind) ==
    CASE kind = "do()" -> TRUE
      [] kind = "don't()" -> FALSE
      [] OTHER -> flag

\* Lines 47-58: one pass of the loop of calculate_products_do_dont.
DoDontCapture ==
    /\ calc_fn = "calculate_products_do_dont" /\ calc_pc = "scan"
    /\ \E cap \in {NextCapture(memory, scan_from, calc_fn)} :
          /\ cap.kind # "none"
          /\ IF cap.kind = "mul" /\ should_add /\ ~cap.parsed
             THEN /\ calc_pc' = "err"
                  /\ UNCHANGED <<should_add, total, scan_from>>
             ELSE /\ should_add' = NextShouldAdd(should_add, cap.kind)
                  /\ total' = IF cap.kind = "mul" /\ should_add
                              THEN total + cap.num1 * cap.num2
                              ELSE total
                  /\ scan_from' = cap.end
                  /\ calc_pc' = calc_pc
    /\ UNCHANGED <<memory, calc_fn, day6vars, day2vars, day5vars>>

\* Lines 30 and 61: the iterator is exhausted, Ok(total) is returned.
CalcReturn ==
    /\ calc_pc = "scan"
    /\ NextCapture(memory, scan_from, calc_fn).kind = "none"
    /\ calc_pc' = "ret"
    /\ UNCHANGED <<memory, calc_fn, scan_from, should_add, total, day6vars,
                   day2vars, day5vars>>

\* main.rs: the first total is printed, then the second function is called.
MainCallsDoDont ==
    /\ calc_fn = "calculate_products" /\ calc_pc = "ret"
    /\ calc_fn' = "calculate_products_do_dont"
    /\ calc_pc' = "scan"
    /\ scan_from' = 1
    /\ should_add' = TRUE
    /\ total' = 0
    /\ UNCHANGED <<memory, day6vars, day2vars, day5vars>>

\* main.rs: the second total is printed and main returns.
MainReturns ==
    /\ calc_fn = "calculate_products_do_dont" /\ calc_pc = "ret"
    /\ calc_pc' = "done"
    /\ UNCHANGED <<memory, calc_fn, scan_from, should_add, total, day6vars,
                   day2vars, day5vars>>

\* main.rs: the `?` after either call hands a ParseError on.
MainPropagatesError ==
    /\ calc_pc = "err"
    /\ calc_pc' = "failed"
    /\ UNCHANGED <<memory, calc_fn, scan_from, should_add, total, day6vars,
                   day2vars, day5vars>>

Day3Next ==
    \/ ProductsCapture
    \/ DoDontCapture
    \/ CalcReturn
    \/ MainCallsDoDont
    \/ MainReturns
    \/ MainPropagatesError

Day3Spec == Day3Init /\ [][Day3Next]_vars

\* The instruction that starts at position i of the memory, if any.
InstructionAt(i) == DoDontAt(memory, i)

\* The mul instructions that start before position upto.
MulsBefore(upto) ==
    { i \in 1 .. (upto - 1) : InstructionAt(i).kind = "mul" }

\* The mul at position i is enabled: the nearest do()/don't() to its left,
\* if there is one, is a do().
Enabled(i) ==
    LET switches == { j \in 1 .. (i - 1) :
                        InstructionAt(j).kind \in {"do()", "don't()"} }
    IN \/ switches = {}
       \/ InstructionAt(CHOOSE j \in switches :
                            \A k \in switches : k <= j).kind = "do()"

RECURSIVE SumOfProducts(_)
SumOfProducts(S) ==
    IF S = {}
    THEN 0
    ELSE LET i == CHOOSE x \in S : TRUE
         IN InstructionAt(i).num1 * InstructionAt(i).num2
              + SumOfProducts(S \ {i})

MaxRules == 2

Pages == 1 .. 3

\* The rule lines `key|value` of the first section, in file order.
RuleLines == UNION { [1 .. n -> Pages \X Pages] : n \in 0 .. MaxRules }

\* An update line of the second section.
Updates == UNION { [1 .. n -> Pages] : n \in 0 .. Cardinality(Pages) }

RECURSIVE ValuesOf(_, _)
\* file_io.rs lines 26-36: the values pushed for key, in file order.
ValuesOf(lines, key) ==
    IF lines = <<>>
    THEN <<>>
    ELSE LET rest == ValuesOf(SubSeq(lines, 1, Len(lines) - 1), key)
             last == lines[Len(lines)]
         IN IF last[1] = key THEN Append(rest, last[2]) ELSE rest

\* The HashMap built from the rule lines; a key without an entry maps to the
\* empty sequence (get returns None, nothing is iterated).
RulesFrom(lines) == [key \in Pages |-> ValuesOf(lines, key)]

\* update.iter().position(|&x| x == value), 0-based; -1 for None.
Position(upd, value) ==
    IF \E k \in 1 .. Len(upd) : upd[k] = value
    THEN (CHOOSE k \in 1 .. Len(upd) :
              /\ upd[k] = value
              /\ \A m \in 1 .. (k - 1) : upd[m] # value) - 1
    ELSE -1

\* is_valid_sequence, lines 40-53.
IsValidSequence(rules, upd) ==
    \A i \in 0 .. (Len(upd) - 1) :
        \A v \in 1 .. Len(rules[upd[i + 1]]) :
            LET p == Position(upd, rules[upd[i + 1]][v])
            IN ~(p >= 0 /\ p <= i)

\* Variant: the element at i is copied over the one at j.
SwapOverwrite(upd, i, j) == [upd EXCEPT ![j + 1] = upd[i + 1]]

\* Variant: the swap leaves the update as it is.
SwapNothing(upd, i, j) == upd

\* update.swap(i, j), 0-based.
Swap(upd, i, j) ==
    [upd EXCEPT ![i + 1] = upd[j + 1], ![j + 1] = upd[i + 1]]

\* find_middle_value, lines 62-69 (0 stands for None, which adds nothing).
FindMiddleValue(upd) ==
    IF Len(upd) = 0 THEN 0 ELSE upd[(Len(upd) \div 2) + 1]

Day5Init ==
    /\ \E lines \in RuleLines : ordering_rules = RulesFrom(lines)
    /\ sequence \in Updates
    /\ update = sequence
    /\ reorder_pc = "check"
    /\ changed = FALSE
    /\ idx = 0
    /\ values = <<>>
    /\ vidx = 0
    /\ middle_total = 0
    /\ Day6Idle /\ Day2Idle /\ Day3Idle

\* process_sequences line 21: a valid update is left alone.
UpdateIsValid ==
    /\ reorder_pc = "check"
    /\ IsValidSequence(ordering_rules, update)
    /\ reorder_pc' = "done"
    /\ UNCHANGED <<ordering_rules, sequence, update, changed, idx, values,
                   vidx, middle_total, day6vars, day2vars, day3vars>>

\* Lines 21-22 and 79: an invalid update is handed to reorder_sequence.
ReorderEntry ==
    /\ reorder_pc = "check"
    /\ ~IsValidSequence(ordering_rules, update)
    /\ changed' = TRUE
    /\ reorder_pc' = "while"
    /\ UNCHANGED <<ordering_rules, sequence, update, idx, values, vidx,
                   middle_total, day6vars, day2vars, day3vars>>

\* Lines 80-82: another pass begins.
PassBegins ==
    /\ reorder_pc = "while"
    /\ changed
    /\ changed' = FALSE
    /\ idx' = 0
    /\ reorder_pc' = "for"
    /\ UNCHANGED <<ordering_rules, sequence, update, values, vidx,
                   middle_total, day6vars, day2vars, day3vars>>

\* Lines 82-84: the values of the rule for update[i] are fetched.
ForNext ==
    /\ reorder_pc = "for"
    /\ idx < Len(update)
    /\ values' = ordering_rules[update[idx + 1]]
    /\ vidx' = 1
    /\ reorder_pc' = "values"
    /\ UNCHANGED <<ordering_rules, sequence, update, changed, idx,
                   middle_total, day6vars, day2vars, day3vars>>

\* Lines 84-91: one value of the rule; an element found at or before i is
\* swapped with the one at i.
ValueStep ==
    /\ reorder_pc = "values"
    /\ vidx <= Len(values)
    /\ \E j \in {Position(update, values[vidx])} :
          IF j >= 0 /\ j <= idx
          THEN /\ update' = Swap(update, idx, j)
               /\ changed' = TRUE
          ELSE UNCHANGED <<update, changed>>
    /\ vidx' = vidx + 1
    /\ UNCHANGED <<ordering_rules, sequence, reorder_pc, idx, values,
                   middle_total, day6vars, day2vars, day3vars>>

\* The values are used up: on to the next i.
ValuesEnd ==
    /\ reorder_pc = "values"
    /\ vidx > Len(values)
    /\ idx' = idx + 1
    /\ reorder_pc' = "for"
    /\ UNCHANGED <<ordering_rules, sequence, update, changed, values, vidx,
                   middle_total, day6vars, day2vars, day3vars>>

\* The for loop is over: back to the test of the while.
PassEnds ==
    /\ reorder_pc = "for"
    /\ idx = Len(update)
    /\ reorder_pc' = "while"
    /\ UNCHANGED <<ordering_rules, sequence, update, changed, idx, values,
                   vidx, middle_total, day6vars, day2vars, day3vars>>

\* Lines 80 and 95: a pass without a swap, reorder_sequence returns.
ReorderReturn ==
    /\ reorder_pc = "while"
    /\ ~changed
    /\ reorder_pc' = "returned"
    /\ UNCHANGED <<ordering_rules, sequence, update, changed, idx, values,
                   vidx, middle_total, day6vars, day2vars, day3vars>>

\* process_sequences lines 23-29: the middle value is added to the total.
AddMiddleValue ==
    /\ reorder_pc = "returned"
    /\ middle_total' = middle_total + FindMiddleValue(update)
    /\ reorder_pc' = "done"
    /\ UNCHANGED <<ordering_rules, sequence, update, changed, idx, values,
                   vidx, day6vars, day2vars, day3vars>>

Day5Next ==
    \/ UpdateIsValid
    \/ ReorderEntry
    \/ PassBegins
    \/ ForNext
    \/ ValueStep
    \/ ValuesEnd
    \/ PassEnds
    \/ ReorderReturn
    \/ AddMiddleValue

Day5Spec == Day5Init /\ [][Day5Next]_vars

\* How often page p occurs in upd.
Occurrences(upd, p) == Cardinality({ k \in 1 .. Len(upd) : upd[k] = p })

\* C18: when reorder_sequence has returned, the update is a permutation of
\* the sequence passed in, is_valid_sequence accepts it, and every page with
\* a rule stands before each of its rule's values that the update holds.
C18_ReturnsValidPermutation ==
    reorder_pc = "returned" =>
        /\ Len(update) = Len(sequence)
        /\ \A p \in Pages : Occurrences(update, p) = Occurrences(sequence, p)
        /\ IsValidSequence(ordering_rules, update)
        /\ \A a, b \in 1 .. Len(update) :
               (\E v \in 1 .. Len(ordering_rules[update[a]]) :
                    ordering_rules[update[a]][v] = update[b]) => a < b

\* Three pages came back in another order than they went in.
C18_Witness ==
    /\ reorder_pc = "returned"
    /\ Len(update) = 3 /\ update # sequence
    /\ \A p \in Pages : Occurrences(update, p) = 1

\* The loops of reorder_sequence are sequential code: whichever step is
\* enabled is taken.
Day5FairSpec == Day5Spec /\ WF_vars(Day5Next)

\* The pages of an update.
PagesOf(upd) == { upd[k] : k \in 1 .. Len(upd) }

\* The rules key|value with both pages in the update.
RulesWithin(rules, upd) ==
    { kv \in PagesOf(upd) \X PagesOf(upd) :
        \E v \in 1 .. Len(rules[kv[1]]) : rules[kv[1]][v] = kv[2] }

\* The pairs joined by a path of one or two steps of R.
WithinTwo(R) ==
    R \cup { ac \in Pages \X Pages :
               \E b \in Pages : <<ac[1], b>> \in R /\ <<b, ac[2]>> \in R }

RECURSIVE Paths(_, _)
\* The pairs joined by a path of at most 2^n steps of R.
Paths(R, n) == IF n = 0 THEN R ELSE WithinTwo(Paths(R, n - 1))

\* No page reaches itself along the rules (no key|key rule, no cycle).
Acyclic(R) ==
    \A p \in Pages : <<p, p>> \notin Paths(R, Cardinality(Pages))

\* The inputs C21 speaks of.
DistinctAndAcyclic ==
    /\ Cardinality(PagesOf(sequence)) = Len(sequence)
    /\ Acyclic(RulesWithin(ordering_rules, sequence))

\* C21: for an update of distinct pages and rules that, among those pages,
\* have no key|key rule and no cycle, reorder_sequence once entered returns.
C21_ReorderTerminates ==
    (DistinctAndAcyclic /\ reorder_pc = "while") ~> (reorder_pc = "returned")

\* Three distinct pages under acyclic rules were reordered and came back.
C21_Witness ==
    /\ DistinctAndAcyclic
    /\ reorder_pc = "returned"
    /\ Len(update) = 3 /\ update # sequence
    /\ Cardinality(RulesWithin(ordering_rules, sequence)) >= 2

====
